---- MODULE Spec2Model ----
(***************************************************************************)
(* Model of src/tiktok_uploader/upload.py: the batch uploader              *)
(* (upload_videos) and the form-filling engine (complete_upload_form and   *)
(* the five stage functions under it), as one sequential state machine.    *)
(* Python strings are sequences of one-character strings; a Python value   *)
(* that may be None, or a dictionary key that may be absent, is a record   *)
(* [kind, s].  The browser is the environment: every WebDriverWait may     *)
(* time out and every find_element may find nothing.                       *)
(***************************************************************************)
EXTENDS Integers, Sequences, FiniteSets, TLC

\* ------------------------------------------------------------- bounds
MaxJobs == 2
MaxLen == 4
MaxRetries == 2

\* The typing loop can spin forever; its iterations are counted up to here.
IterCap == MaxLen + 2

\* ------------------------------------------------------ Python values
None == [kind |-> "none", s |-> <<>>]
Missing == [kind |-> "missing", s |-> <<>>]
Str(s) == [kind |-> "str", s |-> s]

\* dict.get(key, default): the default when the key is absent
Get(video, key, default) ==
    IF video[key].kind = "missing" THEN default ELSE video[key]

Min2(a, b) == IF a <= b THEN a ELSE b
Max2(a, b) == IF a >= b THEN a ELSE b

\* str.find(c): 0-based index of the first occurrence, -1 when absent
PyFind(s, c) ==
    IF \E k \in 1..Len(s) : s[k] = c
    THEN (CHOOSE k \in 1..Len(s) : s[k] = c /\ \A j \in 1..(k-1) : s[j] # c) - 1
    ELSE -1

\* the position a slice bound denotes: negative bounds count from the end
PyBound(s, k) == IF k < 0 THEN Max2(Len(s) + k, 0) ELSE Min2(k, Len(s))

\* s[:k] and s[k:]
PySliceTo(s, k) == SubSeq(s, 1, PyBound(s, k))
PySliceFrom(s, k) == SubSeq(s, PyBound(s, k) + 1, Len(s))

\* s.split(c)[0]: the text before the first c, all of s when there is none
SplitFirst(s, c) == IF PyFind(s, c) = -1 THEN s ELSE PySliceTo(s, PyFind(s, c))

\* s.split(c)[-1]: the text after the last c, all of s when there is none
SplitLast(s, c) ==
    IF \E k \in 1..Len(s) : s[k] = c
    THEN SubSeq(s, (CHOOSE k \in 1..Len(s) :
                       s[k] = c /\ \A j \in (k+1)..Len(s) : s[j] # c) + 1, Len(s))
    ELSE s

\* ------------------------------------------------- files and config
Cwd == <<"/">>
ValidPath == <<"v", ".", "m", "p", "4">>
TextPath == <<"v", ".", "t", "x", "t">>
GonePath == <<"g", ".", "m", "p", "4">>

\* os.path.abspath of a relative path
abspath(p) == IF Len(p) > 0 /\ p[1] = "/" THEN p ELSE Cwd \o p

\* os.path.exists: the files on disk
exists(p) == p \in {abspath(ValidPath), abspath(TextPath)}

\* config['supported_file_types']
supported_file_types == {<<"m", "p", "4">>, <<"m", "o", "v">>}

\* config['max_description_length'], scaled to the descriptions explored
max_description_length == MaxLen - 1

\* variant: only the extension is looked at
_check_valid_path_NoExists(path) == SplitLast(path, ".") \in supported_file_types

_check_valid_path(path) ==
    exists(path) /\ SplitLast(path, ".") \in supported_file_types

\* ------------------------------------------------------------ inputs
DescChars == {"a", " ", "@", "#"}

RECURSIVE SeqsUpTo(_, _)
SeqsUpTo(S, n) ==
    IF n = 0 THEN {<<>>}
    ELSE LET shorter == SeqsUpTo(S, n - 1)
         IN  shorter \cup {Append(s, c) : s \in {t \in shorter : Len(t) = n - 1}, c \in S}

\* descriptions handed to the engine: None or any text up to MaxLen
Descriptions == {None} \cup {Str(s) : s \in SeqsUpTo(DescChars, MaxLen)}

\* the job dictionaries of a batch
JobPaths == {Missing, None, Str(ValidPath), Str(TextPath), Str(GonePath)}
JobDescriptions == {Missing, Str(<<"#", "a">>)}
Jobs == {[path |-> p, description |-> d] : p \in JobPaths, d \in JobDescriptions}
JobLists == SeqsUpTo(Jobs, MaxJobs)

\* ------------------------------------------------------------- state
VARIABLES
    entry,            \* the public function the caller invoked
    videos,           \* upload_videos: the job list
    browser_agent,    \* upload_videos: whether the caller supplied a driver
    on_complete,      \* upload_videos: whether a callback was supplied
    num_retires,      \* upload_videos: the retry count supplied
    quit_on_end,      \* config['quit_on_end']
    stage_kw,         \* keyword arguments of a stage function called on its own
    pc,               \* position in the code
    i,                \* upload_videos: index of the job of this iteration
    driver,           \* the session handle held
    acquired,         \* calls of get_browser
    authenticated,    \* calls of auth.authenticate_agent
    released,         \* calls of driver.quit
    failed,           \* upload_videos: the failed list (indices into videos)
    engine_calls,     \* calls of complete_upload_form: [job, driver]
    callback_calls,   \* calls of on_complete: job indices
    form_results,     \* how each call of complete_upload_form ended: [job, exc]
    result,           \* what the entry function returned
    kwargs,           \* complete_upload_form: keyword arguments received
    path,             \* complete_upload_form: path
    description,      \* complete_upload_form / _set_description: description
    saved_description,\* _set_description: saved_description
    exc,              \* the exception in flight, "none" when there is none
    tries,            \* _set_video: iterations of the retry loop begun
    iters,            \* _set_description: iterations of the typing loop run
    field,            \* value of the description element in the page
    ui                \* the browser operations issued, in order

vars == <<entry, videos, browser_agent, on_complete, num_retires, quit_on_end,
          stage_kw, pc, i, driver, acquired, authenticated, released, failed,
          engine_calls, callback_calls, form_results, result, kwargs, path,
          description, saved_description, exc, tries, iters, field, ui>>

inputs == <<entry, videos, browser_agent, on_complete, num_retires, quit_on_end,
            stage_kw>>
session == <<driver, acquired, authenticated, released>>
batch == <<i, failed, callback_calls>>
calls == <<engine_calls, form_results>>
form == <<kwargs, path, description>>
stage == <<saved_description, tries, iters, field, ui>>

Pending == [kind |-> "pending", list |-> <<>>, exc |-> "none"]
Returned(kind, list, e) == [kind |-> kind, list |-> list, exc |-> e]

\* a browser operation: what was done, on which element, with which text
Op(op, target, text) == [job |-> i, op |-> op, target |-> target, text |-> text]

\* the defaults of the stage functions' keyword parameters
StageDefaults ==
    [num_retries |-> 1, comment |-> TRUE, stitch |-> TRUE, duet |-> TRUE]

InitBatch ==
    /\ entry = "upload_videos"
    /\ stage_kw = StageDefaults
    /\ quit_on_end \in BOOLEAN
    /\ videos \in JobLists
    /\ browser_agent \in BOOLEAN
    /\ on_complete \in BOOLEAN
    /\ num_retires \in 1..MaxRetries
    /\ pc = "upload_videos"
    /\ driver = "none"
    /\ engine_calls = <<>>
    /\ kwargs = {}
    /\ path = <<>>
    /\ description = None

InitForm ==
    /\ entry = "complete_upload_form"
    /\ stage_kw = StageDefaults
    /\ quit_on_end = TRUE
    /\ videos = <<>>
    /\ browser_agent = TRUE
    /\ on_complete = FALSE
    /\ num_retires = 1
    /\ pc = "go_to_upload"
    /\ driver = "supplied"
    /\ engine_calls = <<[job |-> 0, driver |-> "supplied"]>>
    /\ kwargs \in {{}, {"num_retries"}}
    /\ path = abspath(ValidPath)
    /\ description \in Descriptions

\* _set_video(driver, path=..., num_retries=...) called on its own
InitSetVideo ==
    /\ entry = "_set_video"
    /\ stage_kw \in [num_retries : 0..MaxRetries, comment : {TRUE},
                     stitch : {TRUE}, duet : {TRUE}]
    /\ quit_on_end = TRUE
    /\ videos = <<>>
    /\ browser_agent = TRUE
    /\ on_complete = FALSE
    /\ num_retires = 1
    /\ pc = "set_video"
    /\ driver = "supplied"
    /\ engine_calls = <<>>
    /\ kwargs = {}
    /\ path = abspath(ValidPath)
    /\ description = None

\* _set_interactivity(driver, comment=..., stitch=..., duet=...) called on
\* its own
InitSetInteractivity ==
    /\ entry = "_set_interactivity"
    /\ stage_kw \in [num_retries : {1}, comment : BOOLEAN, stitch : BOOLEAN,
                     duet : BOOLEAN]
    /\ quit_on_end = TRUE
    /\ videos = <<>>
    /\ browser_agent = TRUE
    /\ on_complete = FALSE
    /\ num_retires = 1
    /\ pc = "set_interactivity"
    /\ driver = "supplied"
    /\ engine_calls = <<>>
    /\ kwargs = {}
    /\ path = <<>>
    /\ description = None

Init ==
    /\ InitBatch \/ InitForm \/ InitSetVideo \/ InitSetInteractivity
    /\ i = 0
    /\ acquired = 0
    /\ authenticated = 0
    /\ released = 0
    /\ failed = <<>>
    /\ callback_calls = <<>>
    /\ form_results = <<>>
    /\ result = Pending
    /\ saved_description = None
    /\ exc = "none"
    /\ tries = 0
    /\ iters = 0
    /\ field = <<>>
    /\ ui = <<>>

\* ------------------------------------------------------ upload_videos

\* variant: the driver is made before the list is looked at
UploadVideosEmpty_AfterGetBrowser ==
    /\ pc = "upload_videos"
    /\ videos = <<>>
    /\ driver' = "created"
    /\ acquired' = acquired + 1
    /\ pc' = "returned"
    /\ result' = Returned("None", <<>>, "none")
    /\ UNCHANGED <<inputs, authenticated, released, batch, calls, form, stage, exc>>

\* `if not videos`: an empty (or absent) list returns None at once
UploadVideosEmpty ==
    /\ pc = "upload_videos"
    /\ videos = <<>>
    /\ pc' = "returned"
    /\ result' = Returned("None", <<>>, "none")
    /\ UNCHANGED <<inputs, session, batch, calls, form, stage, exc>>

\* `if not browser_agent`: get_browser makes the driver
GetBrowser ==
    /\ pc = "upload_videos"
    /\ videos # <<>>
    /\ ~browser_agent
    /\ driver' = "created"
    /\ acquired' = acquired + 1
    /\ pc' = "authenticate"
    /\ UNCHANGED <<inputs, authenticated, released, batch, calls, result,
                   form, stage, exc>>

\* `else`: the caller's driver is used
UseBrowserAgent ==
    /\ pc = "upload_videos"
    /\ videos # <<>>
    /\ browser_agent
    /\ driver' = "supplied"
    /\ pc' = "authenticate"
    /\ UNCHANGED <<inputs, acquired, authenticated, released, batch, calls,
                   result, form, stage, exc>>

\* driver = auth.authenticate_agent(driver); failed = []; the loop starts
AuthenticateAgent ==
    /\ pc = "authenticate"
    /\ authenticated' = authenticated + 1
    /\ failed' = <<>>
    /\ i' = 1
    /\ pc' = "for"
    /\ UNCHANGED <<inputs, driver, acquired, released, callback_calls, calls,
                   result, form, stage, exc>>

\* abspath(video.get('path')) raises TypeError when there is no path
AbspathRaises(video) == Get(video, "path", None).kind # "str"

\* the job's resolved path
ResolvedPath(video) == abspath(Get(video, "path", None).s)

\* first except: the job is appended to failed, `continue`
JobInvalid ==
    /\ pc = "for"
    /\ i <= Len(videos)
    /\ AbspathRaises(videos[i])
    /\ failed' = Append(failed, i)
    /\ i' = i + 1
    /\ UNCHANGED <<inputs, session, pc, callback_calls, calls, result, form,
                   stage, exc>>

\* variant: the `continue` after the append is missing
JobPathRejected_NoContinue ==
    /\ pc = "for"
    /\ i <= Len(videos)
    /\ ~AbspathRaises(videos[i])
    /\ ~_check_valid_path(ResolvedPath(videos[i]))
    /\ failed' = Append(failed, i)
    /\ path' = ResolvedPath(videos[i])
    /\ description' = Get(videos[i], "description", Str(<<>>))
    /\ kwargs' = {"num_retires"}
    /\ engine_calls' = Append(engine_calls, [job |-> i, driver |-> driver])
    /\ exc' = "none"
    /\ pc' = "go_to_upload"
    /\ UNCHANGED <<inputs, session, i, callback_calls, form_results, result, stage>>

\* `if not _check_valid_path(path)`: appended to failed, `continue`
JobPathRejected ==
    /\ pc = "for"
    /\ i <= Len(videos)
    /\ ~AbspathRaises(videos[i])
    /\ ~_check_valid_path(ResolvedPath(videos[i]))
    /\ failed' = Append(failed, i)
    /\ i' = i + 1
    /\ UNCHANGED <<inputs, session, pc, callback_calls, calls, result, form,
                   stage, exc>>

\* complete_upload_form(driver, path, description, num_retires = num_retires)
CallCompleteUploadForm ==
    /\ pc = "for"
    /\ i <= Len(videos)
    /\ ~AbspathRaises(videos[i])
    /\ _check_valid_path(ResolvedPath(videos[i]))
    /\ path' = ResolvedPath(videos[i])
    /\ description' = Get(videos[i], "description", Str(<<>>))
    /\ kwargs' = {"num_retires"}
    /\ engine_calls' = Append(engine_calls, [job |-> i, driver |-> driver])
    /\ exc' = "none"
    /\ pc' = "go_to_upload"
    /\ UNCHANGED <<inputs, form_results, session, batch, result, stage>>

\* variant: no try around the call, the exception leaves upload_videos
AfterForm_Propagates ==
    /\ entry = "upload_videos"
    /\ pc = "form_done"
    /\ result' = IF exc # "none" THEN Returned("raised", <<>>, exc) ELSE result
    /\ pc' = IF exc # "none" THEN "returned" ELSE "on_complete"
    /\ UNCHANGED <<inputs, session, batch, calls, form, stage, exc>>

\* variant: the except branch ends with `continue`, as the two above it do
AfterForm_Continue ==
    /\ entry = "upload_videos"
    /\ pc = "form_done"
    /\ failed' = IF exc # "none" THEN Append(failed, i) ELSE failed
    /\ i' = IF exc # "none" THEN i + 1 ELSE i
    /\ pc' = IF exc # "none" THEN "for" ELSE "on_complete"
    /\ exc' = "none"
    /\ UNCHANGED <<inputs, session, callback_calls, calls, result, form, stage>>

\* the try around complete_upload_form ends: `except Exception` appends the
\* job to failed, a normal return appends nothing
AfterForm ==
    /\ entry = "upload_videos"
    /\ pc = "form_done"
    /\ failed' = IF exc # "none" THEN Append(failed, i) ELSE failed
    /\ exc' = "none"
    /\ pc' = "on_complete"
    /\ UNCHANGED <<inputs, session, i, callback_calls, calls, result, form, stage>>

\* `if on_complete: on_complete(video)`, then the next job
CallOnComplete ==
    /\ pc = "on_complete"
    /\ on_complete
    /\ callback_calls' = Append(callback_calls, i)
    /\ i' = i + 1
    /\ pc' = "for"
    /\ UNCHANGED <<inputs, session, failed, calls, result, form, stage, exc>>

NoOnComplete ==
    /\ pc = "on_complete"
    /\ ~on_complete
    /\ i' = i + 1
    /\ pc' = "for"
    /\ UNCHANGED <<inputs, session, failed, callback_calls, calls, result,
                   form, stage, exc>>

\* after the loop: `if config['quit_on_end']: driver.quit()`
QuitOnEnd ==
    /\ pc = "for"
    /\ i > Len(videos)
    /\ quit_on_end
    /\ released' = released + 1
    /\ pc' = "return"
    /\ UNCHANGED <<inputs, driver, acquired, authenticated, batch, calls,
                   result, form, stage, exc>>

\* variant: driver.quit() whatever the configuration says
KeepOpen_Quits ==
    /\ pc = "for"
    /\ i > Len(videos)
    /\ ~quit_on_end
    /\ released' = released + 1
    /\ pc' = "return"
    /\ UNCHANGED <<inputs, driver, acquired, authenticated, batch, calls,
                   result, form, stage, exc>>

KeepOpen ==
    /\ pc = "for"
    /\ i > Len(videos)
    /\ ~quit_on_end
    /\ pc' = "return"
    /\ UNCHANGED <<inputs, session, batch, calls, result, form, stage, exc>>

\* `return failed`
ReturnFailed ==
    /\ pc = "return"
    /\ result' = Returned("list", failed, "none")
    /\ pc' = "returned"
    /\ UNCHANGED <<inputs, session, batch, calls, form, stage, exc>>

\* complete_upload_form, or a stage function, called by the caller itself:
\* it returns None or raises
FormCallEnds ==
    /\ entry # "upload_videos"
    /\ pc = "form_done"
    /\ result' = IF exc = "none" THEN Returned("None", <<>>, "none")
                 ELSE Returned("raised", <<>>, exc)
    /\ pc' = "returned"
    /\ UNCHANGED <<inputs, session, batch, calls, form, stage, exc>>

\* ----------------------------------------------- complete_upload_form

\* the keyword arguments a stage function accepts besides its named ones:
\* _go_to_upload(driver) accepts none
GoToUploadAccepts(kw) == kw = {}

\* where a stage function returns to: the next stage of
\* complete_upload_form, or the caller when the stage was called on its own
AfterStage(next) ==
    IF entry \in {"_set_video", "_set_interactivity"} THEN "form_done" ELSE next

\* an exception leaves complete_upload_form
Raise(e) ==
    /\ exc' = e
    /\ form_results' = Append(form_results, [job |-> i, exc |-> e])
    /\ pc' = "form_done"

\* _go_to_upload(driver, *args, **kwargs) with a keyword it does not take:
\* TypeError at the call, before the function body runs
GoToUploadTypeError ==
    /\ pc = "go_to_upload"
    /\ ~GoToUploadAccepts(kwargs)
    /\ Raise("TypeError")
    /\ UNCHANGED <<inputs, session, batch, engine_calls, result, form, stage>>

\* driver.get, the iframe is found and entered, the root element appears
GoToUpload ==
    /\ pc = "go_to_upload"
    /\ GoToUploadAccepts(kwargs)
    /\ ui' = ui \o <<Op("get", "upload", <<>>), Op("wait", "iframe", <<>>),
                     Op("switch_to", "iframe", <<>>), Op("wait", "root", <<>>)>>
    /\ field' = <<>>
    /\ tries' = 0
    /\ pc' = "set_video"
    /\ UNCHANGED <<inputs, session, batch, calls, result, form,
                   saved_description, iters, exc>>

\* variant: the missing iframe is ignored and the attachment stage starts
GoToUploadIframeTimeout_Ignored ==
    /\ pc = "go_to_upload"
    /\ GoToUploadAccepts(kwargs)
    /\ ui' = ui \o <<Op("get", "upload", <<>>), Op("wait", "iframe", <<>>),
                     Op("timeout", "iframe", <<>>)>>
    /\ field' = <<>>
    /\ tries' = 0
    /\ pc' = "set_video"
    /\ UNCHANGED <<inputs, session, batch, calls, result, form,
                   saved_description, iters, exc>>

\* the iframe does not appear within explicit_wait
GoToUploadIframeTimeout ==
    /\ pc = "go_to_upload"
    /\ GoToUploadAccepts(kwargs)
    /\ ui' = ui \o <<Op("get", "upload", <<>>), Op("wait", "iframe", <<>>),
                     Op("timeout", "iframe", <<>>)>>
    /\ field' = <<>>
    /\ Raise("TimeoutException")
    /\ UNCHANGED <<inputs, session, batch, engine_calls, result, form,
                   saved_description, tries, iters>>

\* the root element does not appear within explicit_wait
GoToUploadRootTimeout ==
    /\ pc = "go_to_upload"
    /\ GoToUploadAccepts(kwargs)
    /\ ui' = ui \o <<Op("get", "upload", <<>>), Op("wait", "iframe", <<>>),
                     Op("switch_to", "iframe", <<>>), Op("wait", "root", <<>>),
                     Op("timeout", "root", <<>>)>>
    /\ field' = <<>>
    /\ Raise("TimeoutException")
    /\ UNCHANGED <<inputs, session, batch, engine_calls, result, form,
                   saved_description, tries, iters>>

\* ---------------------------------------------------------- _set_video

\* _set_video(driver, *args, path = '', num_retries = 1, **kwargs) called as
\* _set_video(driver, path): the positional argument lands in *args, and the
\* keyword-only parameters keep their defaults
SetVideoBinding(positional) ==
    [args |-> positional, path |-> <<>>, num_retries |-> 1]

\* the parameters of the running _set_video: bound by complete_upload_form's
\* call, or given by keyword when the stage is called on its own
SetVideo ==
    IF entry = "_set_video"
    THEN [args |-> <<>>, path |-> path, num_retries |-> stage_kw.num_retries]
    ELSE SetVideoBinding(<<path>>)

\* the operations of one attempt that stops at `stop` ("return" when all
\* three waits succeed)
AttemptOps(stop) ==
    LET find == <<Op("find", "upload_video", <<>>)>>
        send == <<Op("send_keys", "upload_video", SetVideo.path)>>
        w1 == <<Op("wait_not", "upload_progress", <<>>)>>
        w2 == <<Op("wait", "upload_confirmation", <<>>)>>
        w3 == <<Op("wait", "process_confirmation", <<>>)>>
    IN  CASE stop = "upload_video" -> find \o <<Op("missing", stop, <<>>)>>
          [] stop = "upload_progress" ->
                find \o send \o w1 \o <<Op("timeout", stop, <<>>)>>
          [] stop = "upload_confirmation" ->
                find \o send \o w1 \o w2 \o <<Op("timeout", stop, <<>>)>>
          [] stop = "process_confirmation" ->
                find \o send \o w1 \o w2 \o w3 \o <<Op("timeout", stop, <<>>)>>
          [] OTHER -> find \o send \o w1 \o w2 \o w3

\* variant: the attempt succeeds but the loop goes on (no `return`)
SetVideoAttemptReturns_NoReturn ==
    /\ pc = "set_video"
    /\ tries < SetVideo.num_retries
    /\ tries' = tries + 1
    /\ ui' = ui \o AttemptOps("return")
    /\ UNCHANGED <<inputs, session, batch, calls, result, form,
                   saved_description, iters, field, exc, pc>>

\* an attempt in which all three waits succeed: `return`
SetVideoAttemptReturns ==
    /\ pc = "set_video"
    /\ tries < SetVideo.num_retries
    /\ tries' = tries + 1
    /\ ui' = ui \o AttemptOps("return")
    /\ pc' = AfterStage("set_interactivity")
    /\ UNCHANGED <<inputs, session, batch, calls, result, form,
                   saved_description, iters, field, exc>>

\* an attempt that raises: the exception is printed, the loop goes on
SetVideoAttemptRaises ==
    /\ pc = "set_video"
    /\ tries < SetVideo.num_retries
    /\ \E stop \in {"upload_video", "upload_progress", "upload_confirmation",
                    "process_confirmation"} :
          ui' = ui \o AttemptOps(stop)
    /\ tries' = tries + 1
    /\ UNCHANGED <<inputs, session, batch, calls, result, form,
                   saved_description, iters, field, exc, pc>>

\* variant: running out of attempts raises
SetVideoExhausted_Raises ==
    /\ pc = "set_video"
    /\ tries >= SetVideo.num_retries
    /\ Raise("TimeoutException")
    /\ UNCHANGED <<inputs, session, batch, engine_calls, result, form, stage>>

\* range(num_retries) is used up: the function ends, returning None
SetVideoExhausted ==
    /\ pc = "set_video"
    /\ tries >= SetVideo.num_retries
    /\ pc' = AfterStage("set_interactivity")
    /\ UNCHANGED <<inputs, session, batch, calls, result, form, stage, exc>>

\* -------------------------------------------------- _set_interactivity

Controls == <<"comment", "stitch", "duet">>

\* _set_interactivity(driver, *args, **kwargs): from complete_upload_form no
\* keyword reaches it (any keyword is a TypeError in _go_to_upload), so the
\* three defaults apply; called on its own it gets the flags given
Desired ==
    [c \in {"comment", "stitch", "duet"} |->
        IF entry = "_set_interactivity" THEN stage_kw[c] ELSE StageDefaults[c]]

\* what is_selected() answered, as logged
Bool(b) == IF b THEN <<"True">> ELSE <<"False">>

\* variant: the control is clicked whenever the flag is set
ControlOps_WhenDesired(c, desired, current) ==
    <<Op("is_selected", c, Bool(current))>>
      \o (IF desired THEN <<Op("click", c, <<>>)>> ELSE <<>>)

\* `if flag ^ box.is_selected(): box.click()`
ControlOps(c, desired, current) ==
    <<Op("is_selected", c, Bool(current))>>
      \o (IF desired # current THEN <<Op("click", c, <<>>)>> ELSE <<>>)

FindOps(n) == [k \in 1..n |-> Op("find", Controls[k], <<>>)]

SetInteractivity ==
    /\ pc = "set_interactivity"
    /\ \E current \in [{"comment", "stitch", "duet"} -> BOOLEAN] :
          ui' = ui \o FindOps(3)
                   \o ControlOps("comment", Desired["comment"], current["comment"])
                   \o ControlOps("stitch", Desired["stitch"], current["stitch"])
                   \o ControlOps("duet", Desired["duet"], current["duet"])
    /\ pc' = AfterStage("set_description")
    /\ UNCHANGED <<inputs, session, batch, calls, result, form,
                   saved_description, tries, iters, field, exc>>

\* one of the three find_element calls finds nothing
SetInteractivityNoElement ==
    /\ pc = "set_interactivity"
    /\ \E n \in 1..3 :
          ui' = ui \o FindOps(n) \o <<Op("missing", Controls[n], <<>>)>>
    /\ Raise("NoSuchElementException")
    /\ UNCHANGED <<inputs, session, batch, engine_calls, result, form,
                   saved_description, tries, iters, field>>

\* ---------------------------------------------------- _set_description

\* what the platform puts into the description field after the attachment
AutoPopulated == <<"v">>

\* element.clear() on this page does not always clear (the reason _clear
\* exists): the value is emptied or left as it is
ClearOutcomes(value) == {<<>>, value}

\* _clear(element): clear(), then CONTROL+a and DELETE, which empty the field
ClearOps ==
    <<Op("clear", "description", <<>>), Op("send_keys", "description", <<"CONTROL+a">>),
      Op("send_keys", "description", <<"DELETE">>)>>

\* `if description is None: return`
SetDescriptionNone ==
    /\ pc = "set_description"
    /\ description = None
    /\ pc' = "post_video"
    /\ UNCHANGED <<inputs, session, batch, calls, result, form, stage, exc>>

\* find_element finds no description element
SetDescriptionNoElement ==
    /\ pc = "set_description"
    /\ description # None
    /\ saved_description' = description
    /\ ui' = ui \o <<Op("find", "description", <<>>), Op("missing", "description", <<>>)>>
    /\ Raise("NoSuchElementException")
    /\ UNCHANGED <<inputs, session, batch, engine_calls, result, form, tries, iters,
                   field>>

\* WebDriverWait(driver, 10).until(value != ''): the field is populated
SetDescriptionPopulated ==
    /\ pc = "set_description"
    /\ description # None
    /\ saved_description' = description
    /\ ui' = ui \o <<Op("find", "description", <<>>), Op("wait", "description", <<>>)>>
    /\ field' = IF field = <<>> THEN AutoPopulated ELSE field
    /\ pc' = "desc_clear"
    /\ UNCHANGED <<inputs, session, batch, calls, result, form, tries, iters,
                   exc>>

\* the field stays empty for 10 seconds: TimeoutException, outside the try
SetDescriptionPopulateTimeout ==
    /\ pc = "set_description"
    /\ description # None
    /\ field = <<>>
    /\ saved_description' = description
    /\ ui' = ui \o <<Op("find", "description", <<>>), Op("wait", "description", <<>>),
                     Op("timeout", "description", <<>>)>>
    /\ Raise("TimeoutException")
    /\ UNCHANGED <<inputs, session, batch, engine_calls, result, form, tries, iters,
                   field>>

\* _clear(desc)
SetDescriptionClear ==
    /\ pc = "desc_clear"
    /\ ui' = ui \o ClearOps
    /\ field' = <<>>
    /\ iters' = 0
    /\ pc' = "desc_try"
    /\ UNCHANGED <<inputs, session, batch, calls, result, form,
                   saved_description, tries, exc>>

\* variant: the length check is missing
TooLong_Unchecked(text) == FALSE

TooLong(text) == Len(text) > max_description_length

\* variant: the text is typed before its length is checked
DescriptionTooLong_AfterTyping ==
    /\ pc = "desc_try"
    /\ TooLong(description.s)
    /\ ui' = ui \o <<Op("send_keys", "description", description.s)>>
    /\ field' = field \o description.s
    /\ exc' = "DescriptionTooLong"
    /\ pc' = "desc_except"
    /\ UNCHANGED <<inputs, session, batch, calls, result, form,
                   saved_description, tries, iters>>

\* `if len(description) > config['max_description_length']: raise`
DescriptionTooLong ==
    /\ pc = "desc_try"
    /\ TooLong(description.s)
    /\ exc' = "DescriptionTooLong"
    /\ pc' = "desc_except"
    /\ UNCHANGED <<inputs, session, batch, calls, result, form, stage>>

DescriptionFits ==
    /\ pc = "desc_try"
    /\ ~TooLong(description.s)
    /\ pc' = "desc_while"
    /\ UNCHANGED <<inputs, session, batch, calls, result, form, stage, exc>>

nearest_mention == PyFind(description.s, "@")
nearest_hash == PyFind(description.s, "#")

\* `if nearest_mention == 0 or nearest_hash == 0`
AtTrigger == nearest_mention = 0 \/ nearest_hash = 0

Trigger == IF nearest_mention = 0 THEN "@" ELSE "#"

\* name = description[1:].split(' ')[0]
name == SplitFirst(PySliceFrom(description.s, 1), " ")

Suggestions == IF nearest_mention = 0 THEN "mentions" ELSE "hashtags"

TriggerOps ==
    <<Op("send_keys", "description", <<Trigger>>), Op("sleep", "implicit_wait", <<>>),
      Op("send_keys", "description", name), Op("wait", Suggestions, name)>>

\* the trigger branch: trigger and name typed, the suggestion appears and
\* is clicked, description = description[len(name) + 1:]
TypeTrigger ==
    /\ pc = "desc_while"
    /\ description.s # <<>>
    /\ iters < IterCap
    /\ AtTrigger
    /\ ui' = ui \o TriggerOps \o <<Op("click", Suggestions, name)>>
    /\ field' = field \o <<Trigger>> \o name
    /\ description' = Str(PySliceFrom(description.s, Len(name) + 1))
    /\ iters' = iters + 1
    /\ UNCHANGED <<inputs, session, batch, calls, result, kwargs, path,
                   saved_description, tries, exc, pc>>

\* the trigger branch when the suggestion does not appear in explicit_wait
SuggestionTimeout ==
    /\ pc = "desc_while"
    /\ description.s # <<>>
    /\ iters < IterCap
    /\ AtTrigger
    /\ ui' = ui \o TriggerOps \o <<Op("timeout", Suggestions, name)>>
    /\ field' = field \o <<Trigger>> \o name
    /\ iters' = iters + 1
    /\ exc' = "TimeoutException"
    /\ pc' = "desc_except"
    /\ UNCHANGED <<inputs, session, batch, calls, result, form,
                   saved_description, tries>>

\* min_index = min(nearest_mention, nearest_hash), where find gives -1 for
\* a character that is absent
min_index == Min2(nearest_mention, nearest_hash)

\* the else branch: description[:min_index] typed,
\* description = description[min_index:]
TypeLiteral ==
    /\ pc = "desc_while"
    /\ description.s # <<>>
    /\ iters < IterCap
    /\ ~AtTrigger
    /\ ui' = ui \o <<Op("send_keys", "description", PySliceTo(description.s, min_index))>>
    /\ field' = field \o PySliceTo(description.s, min_index)
    /\ description' = Str(PySliceFrom(description.s, min_index))
    /\ iters' = iters + 1
    /\ UNCHANGED <<inputs, session, batch, calls, result, kwargs, path,
                   saved_description, tries, exc, pc>>

\* `while description` ends: the function returns
TypingDone ==
    /\ pc = "desc_while"
    /\ description.s = <<>>
    /\ pc' = "post_video"
    /\ UNCHANGED <<inputs, session, batch, calls, result, form, stage, exc>>

\* `except Exception`: desc.clear(); desc.send_keys(saved_description)
DescriptionFallback ==
    /\ pc = "desc_except"
    /\ \E cleared \in ClearOutcomes(field) :
          field' = cleared \o saved_description.s
    /\ ui' = ui \o <<Op("clear", "description", <<>>),
                     Op("send_keys", "description", saved_description.s)>>
    /\ exc' = "none"
    /\ pc' = "post_video"
    /\ UNCHANGED <<inputs, session, batch, calls, result, form,
                   saved_description, tries, iters>>

\* --------------------------------------------------------- _post_video

\* the post control is clicked and the confirmation appears
PostVideo ==
    /\ pc = "post_video"
    /\ ui' = ui \o <<Op("find", "post", <<>>), Op("click", "post", <<>>),
                     Op("wait", "post_confirmation", <<>>)>>
    /\ form_results' = Append(form_results, [job |-> i, exc |-> "none"])
    /\ pc' = "form_done"
    /\ UNCHANGED <<inputs, session, batch, engine_calls, result, form,
                   saved_description, tries, iters, field, exc>>

PostVideoNoElement ==
    /\ pc = "post_video"
    /\ ui' = ui \o <<Op("find", "post", <<>>), Op("missing", "post", <<>>)>>
    /\ Raise("NoSuchElementException")
    /\ UNCHANGED <<inputs, session, batch, engine_calls, result, form,
                   saved_description, tries, iters, field>>

\* the confirmation does not appear within explicit_wait
PostVideoTimeout ==
    /\ pc = "post_video"
    /\ ui' = ui \o <<Op("find", "post", <<>>), Op("click", "post", <<>>),
                     Op("wait", "post_confirmation", <<>>),
                     Op("timeout", "post_confirmation", <<>>)>>
    /\ Raise("TimeoutException")
    /\ UNCHANGED <<inputs, session, batch, engine_calls, result, form,
                   saved_description, tries, iters, field>>

\* -------------------------------------------------------- the program

Next ==
    \/ UploadVideosEmpty
    \/ GetBrowser
    \/ UseBrowserAgent
    \/ AuthenticateAgent
    \/ JobInvalid
    \/ JobPathRejected
    \/ CallCompleteUploadForm
    \/ AfterForm
    \/ CallOnComplete
    \/ NoOnComplete
    \/ QuitOnEnd
    \/ KeepOpen
    \/ ReturnFailed
    \/ FormCallEnds
    \/ GoToUploadTypeError
    \/ GoToUpload
    \/ GoToUploadIframeTimeout
    \/ GoToUploadRootTimeout
    \/ SetVideoAttemptReturns
    \/ SetVideoAttemptRaises
    \/ SetVideoExhausted
    \/ SetInteractivity
    \/ SetInteractivityNoElement
    \/ SetDescriptionNone
    \/ SetDescriptionPopulated
    \/ SetDescriptionPopulateTimeout
    \/ SetDescriptionNoElement
    \/ SetDescriptionClear
    \/ DescriptionTooLong
    \/ DescriptionFits
    \/ TypeTrigger
    \/ SuggestionTimeout
    \/ TypeLiteral
    \/ TypingDone
    \/ DescriptionFallback
    \/ PostVideo
    \/ PostVideoNoElement
    \/ PostVideoTimeout

Spec == Init /\ [][Next]_vars

\* ------------------------------------------------------- properties

Batch == entry = "upload_videos"
JobIds == 1..Len(videos)

\* the loop has finished with job j
Processed(j) == j < i

InFailed(j) == \E k \in 1..Len(failed) : failed[k] = j
Count(seq, x) == Cardinality({k \in 1..Len(seq) : seq[k] = x})

EngineRaised(j) ==
    \E k \in 1..Len(form_results) : form_results[k].job = j /\ form_results[k].exc # "none"
EngineReturned(j) ==
    \E k \in 1..Len(form_results) : form_results[k].job = j /\ form_results[k].exc = "none"
EngineCalled(j) == \E k \in 1..Len(engine_calls) : engine_calls[k].job = j

\* the browser operations issued for job j
OpsOf(j) == {k \in 1..Len(ui) : ui[k].job = j}
Did(j, op, target) == \E k \in OpsOf(j) : ui[k].op = op /\ ui[k].target = target

\* the job has a path, the file is on disk and its extension is supported
PathPasses(j) ==
    /\ Get(videos[j], "path", None).kind = "str"
    /\ exists(abspath(Get(videos[j], "path", None).s))
    /\ SplitLast(abspath(Get(videos[j], "path", None).s), ".") \in supported_file_types

\* C1: in upload_videos a job that is malformed, fails path validation or
\* whose upload raises is recorded in failed once the loop is through with
\* it, the loop goes on to the last job, and upload_videos returns the failed
\* list: no exception leaves it and it never stops before returning.
C1_FailureNeverAborts ==
    Batch =>
        /\ \A j \in JobIds :
              (Processed(j) /\ (~PathPasses(j) \/ EngineRaised(j))) => InFailed(j)
        /\ result.kind # "raised"
        /\ (pc = "returned" /\ videos # <<>>) =>
              /\ result = Returned("list", failed, "none")
              /\ i = Len(videos) + 1
        /\ pc # "returned" => ENABLED Next

C1_Witness ==
    /\ Batch
    /\ pc = "returned"
    /\ Len(videos) = 2
    /\ EngineRaised(1)
    /\ ~PathPasses(2)
    /\ result.list = <<1, 2>>

\* C2: a job of upload_videos whose path is valid and none of whose waits
\* timed out is carried to submission (the post control is clicked for it)
\* and is not in the failed list returned.
C2_ValidJobIsSubmitted ==
    (Batch /\ pc = "returned") =>
        \A j \in JobIds :
            (PathPasses(j) /\ ~\E k \in OpsOf(j) : ui[k].op \in {"timeout", "missing"})
                => (~InFailed(j) /\ Did(j, "click", "post"))

\* C3: the failed list is never longer than the job list, holds only jobs of
\* the list, in the order of the list, each occurrence at most once, and no
\* job whose upload returned normally is in it.
C3_FailedIsOrderedSublist ==
    Batch =>
        /\ Len(failed) <= Len(videos)
        /\ \A k \in 1..Len(failed) : failed[k] \in JobIds
        /\ \A k1, k2 \in 1..Len(failed) : k1 < k2 => failed[k1] < failed[k2]
        /\ \A j \in JobIds : ~(InFailed(j) /\ EngineReturned(j))
        /\ result.kind = "list" => result.list = failed

C3_Witness ==
    /\ Batch
    /\ result.kind = "list"
    /\ Len(videos) = 2
    /\ videos[1] = videos[2]
    /\ result.list = <<1, 2>>

\* C4: a job whose resolved path is not on disk or has an unsupported
\* extension is in failed once the loop is through with it, and
\* complete_upload_form is never called and no browser operation is issued
\* for it.
C4_RejectedPathNeverReachesEngine ==
    Batch =>
        \A j \in JobIds :
            (Get(videos[j], "path", None).kind = "str" /\ ~PathPasses(j)) =>
                /\ Processed(j) => InFailed(j)
                /\ ~EngineCalled(j)
                /\ OpsOf(j) = {}

C4_Witness ==
    /\ Batch
    /\ pc = "returned"
    /\ \E j \in JobIds :
          /\ Get(videos[j], "path", None) = Str(GonePath)
          /\ InFailed(j)
          /\ ~EngineCalled(j)
    /\ \E j \in JobIds :
          /\ Get(videos[j], "path", None) = Str(TextPath)
          /\ InFailed(j)
          /\ ~EngineCalled(j)

\* C5 (as claimed): with a callback supplied, it has been called exactly once
\* for every job of the list when upload_videos returns.
C5_CallbackOncePerJob ==
    (Batch /\ on_complete /\ pc = "returned") =>
        \A j \in JobIds : Count(callback_calls, j) = 1

\* C5 (amended): with a callback supplied, it is called exactly once, with
\* the job, for every job that passed path validation, whether its upload
\* returned or raised, and never for a malformed job or one that failed path
\* validation; without a callback nothing is called.
C5_CallbackOncePerValidatedJob ==
    Batch =>
        /\ ~on_complete => callback_calls = <<>>
        /\ on_complete =>
              \A j \in JobIds :
                  Count(callback_calls, j) =
                      IF Processed(j) /\ PathPasses(j) THEN 1 ELSE 0

C5_Witness ==
    /\ Batch
    /\ on_complete
    /\ pc = "returned"
    /\ \E j \in JobIds : PathPasses(j) /\ EngineRaised(j) /\ Count(callback_calls, j) = 1
    /\ \E j \in JobIds : ~PathPasses(j) /\ Count(callback_calls, j) = 0

\* the attachment attempts made for job j, and whether one succeeded
Attempts(j) ==
    Cardinality({k \in OpsOf(j) : ui[k].op = "find" /\ ui[k].target = "upload_video"})
AttemptSucceeded(j) ==
    \E k \in OpsOf(j) :
        /\ ui[k].op = "wait" /\ ui[k].target = "process_confirmation"
        /\ ~(k < Len(ui) /\ ui[k + 1].op = "timeout")

\* C6: with retry count N given to upload_videos, a valid job all of whose
\* attachment attempts fail has had exactly N attachment attempts.
C6_RetryCountBoundsAttempts ==
    (Batch /\ pc = "returned") =>
        \A j \in JobIds :
            (PathPasses(j) /\ ~AttemptSucceeded(j)) => Attempts(j) = num_retires

\* C7: in a non-empty batch the driver is acquired at most once and not at
\* all when the caller supplies one, authenticated exactly once before the
\* first job, the same driver is passed to every call of the engine, and
\* it is released only after the last job, exactly once if quit_on_end is
\* set and never otherwise.
C7_SessionLifecycle ==
    (Batch /\ videos # <<>>) =>
        /\ acquired <= 1
        /\ browser_agent => acquired = 0
        /\ authenticated <= 1
        /\ i >= 1 => (authenticated = 1 /\ (~browser_agent => acquired = 1))
        /\ authenticated = 1 =>
              driver = IF browser_agent THEN "supplied" ELSE "created"
        /\ \A k \in 1..Len(engine_calls) :
              engine_calls[k].driver = driver /\ driver # "none"
        /\ released <= 1
        /\ released = 1 => i > Len(videos)
        /\ pc = "returned" => released = IF quit_on_end THEN 1 ELSE 0

C7_Witness ==
    /\ Batch
    /\ pc = "returned"
    /\ Len(engine_calls) = 2
    /\ acquired = 1
    /\ authenticated = 1
    /\ released = 1

\* C8: for an empty job list upload_videos returns None in one step, with
\* no driver acquired, authenticated or released and no callback called.
C8_EmptyListIsNoOp ==
    (Batch /\ videos = <<>>) =>
        /\ pc \in {"upload_videos", "returned"}
        /\ pc = "returned" => result = Returned("None", <<>>, "none")
        /\ driver = "none"
        /\ acquired = 0
        /\ authenticated = 0
        /\ released = 0
        /\ callback_calls = <<>>
        /\ engine_calls = <<>>
        /\ ui = <<>>

C8_Witness ==
    /\ Batch
    /\ videos = <<>>
    /\ on_complete
    /\ pc = "returned"

\* the description stage was entered with a text longer than the maximum
TooLongCase ==
    /\ saved_description.kind = "str"
    /\ Len(saved_description.s) > max_description_length

\* the description stage is over
AfterDescription == pc \in {"post_video", "form_done", "returned"}

\* the submission stage was reached
Submitting == pc = "post_video" \/ \E k \in 1..Len(ui) : ui[k].target = "post"

\* no iteration of the typing loop ran: no trigger typed, no suggestion
\* awaited or clicked
NoTypingLoop ==
    /\ iters = 0
    /\ pc # "desc_while"
    /\ \A k \in 1..Len(ui) :
          /\ ui[k].target \notin {"mentions", "hashtags"}
          /\ ui[k].op # "sleep"

\* C9 (as claimed): for a description longer than the maximum the typing
\* loop never runs, DescriptionTooLong does not leave the stage, and when the
\* stage is over the field holds the original description and the job is at
\* the submission stage.
C9_TooLongAlwaysRestored ==
    TooLongCase =>
        /\ NoTypingLoop
        /\ \A k \in 1..Len(form_results) : form_results[k].exc # "DescriptionTooLong"
        /\ AfterDescription => (field = saved_description.s /\ Submitting)

\* C9 (amended): for a description longer than the maximum the typing loop
\* never runs and DescriptionTooLong does not leave the stage; if the
\* description element was found and seen non-empty (so that the field was
\* cleared and the length check reached), then when the stage is over the
\* field holds the original description and the job is at the submission
\* stage.  If the element is missing or stays empty the stage raises before
\* the length check.
C9_TooLongRestoredAfterClear ==
    TooLongCase =>
        /\ NoTypingLoop
        /\ \A k \in 1..Len(form_results) : form_results[k].exc # "DescriptionTooLong"
        /\ exc = "DescriptionTooLong" => pc = "desc_except"
        /\ (AfterDescription /\ \E k \in 1..Len(ui) : ui[k].op = "clear") =>
              (field = saved_description.s /\ Submitting)
        /\ (AfterDescription /\ ~\E k \in 1..Len(ui) : ui[k].op = "clear") =>
              (EngineRaised(i) /\ field = <<>>)

C9_Witness ==
    /\ TooLongCase
    /\ pc = "post_video"
    /\ field = saved_description.s
    /\ ui[Len(ui)] = [job |-> i, op |-> "send_keys", target |-> "description",
                      text |-> saved_description.s]

\* the description handed to the stage is None or the empty string
EmptyDescription ==
    \/ description = None
    \/ saved_description = Str(<<>>)
    \/ (saved_description = None /\ description = Str(<<>>))

\* C10: for an empty or absent description (None, or the default '') the
\* description stage issues no wait, no clear and no keystroke on the
\* description field.
C10_EmptyDescriptionIsNoOp ==
    EmptyDescription =>
        \A k \in 1..Len(ui) :
            ui[k].target = "description" => ui[k].op \notin {"wait", "clear", "send_keys"}

\* C11: every iteration of the typing loop that goes on to the next one
\* (its suggestion, if any, appeared) leaves the remaining text strictly
\* shorter, so that the loop ends after finitely many iterations.
C11_IterationShortensText ==
    [][(pc = "desc_while" /\ pc' = "desc_while" /\ iters' = iters + 1)
          => Len(description'.s) < Len(description.s)]_vars

\* the text sent to the description field from operation k on
RECURSIVE TextFrom(_)
TextFrom(k) ==
    IF k > Len(ui) THEN <<>>
    ELSE (IF ui[k].op = "send_keys" /\ ui[k].target = "description"
          THEN ui[k].text ELSE <<>>) \o TextFrom(k + 1)

\* the last operation of _clear, 0 when the field was not cleared
LastDelete ==
    IF \E k \in 1..Len(ui) : ui[k].text = <<"DELETE">>
    THEN CHOOSE k \in 1..Len(ui) :
            ui[k].text = <<"DELETE">> /\ \A j \in (k+1)..Len(ui) : ui[j].text # <<"DELETE">>
    ELSE 0

\* the tokens the typing loop has typed, concatenated in the order typed
TypedByLoop == TextFrom(LastDelete + 1)

\* C12: the tokens the typing loop types, concatenated in the order typed,
\* equal the original description: what is typed so far followed by what
\* remains is the original, and once the loop has run as many iterations as
\* the description has characters (a token has at least one character) or
\* has ended, what is typed is all of it.
C12_TypedTokensRebuildDescription ==
    /\ pc = "desc_while" =>
          /\ TypedByLoop \o description.s = saved_description.s
          /\ iters >= Len(saved_description.s) => TypedByLoop = saved_description.s
    /\ (pc = "post_video" /\ saved_description.kind = "str" /\ iters > 0
           /\ ui[Len(ui)].op # "send_keys") =>
          TypedByLoop = saved_description.s

\* the 0-based position of the nearest '@' or '#' that is present in s, the
\* length of s ("infinitely far") when there is none
NearestTrigger(s) ==
    IF \E k \in 1..Len(s) : s[k] \in {"@", "#"}
    THEN (CHOOSE k \in 1..Len(s) :
             s[k] \in {"@", "#"} /\ \A j \in 1..(k-1) : s[j] \notin {"@", "#"}) - 1
    ELSE Len(s)

\* C13: an iteration of the typing loop that takes the else branch types
\* the literal run up to, and not including, the nearest '@' or '#' that is
\* present (all of the remaining text when there is none), so that no
\* trigger character is typed as literal text.
C13_LiteralRunStopsAtTrigger ==
    [][(pc = "desc_while" /\ pc' = "desc_while" /\ iters' = iters + 1 /\ ~AtTrigger)
          => field' = field \o SubSeq(description.s, 1, NearestTrigger(description.s))]_vars

\* C14: whenever the engine injects a string into the file input of the
\* upload page, the string is the resolved absolute path of the job being
\* processed.
C14_InjectedPathIsJobPath ==
    entry \in {"upload_videos", "complete_upload_form"} =>
        \A k \in 1..Len(ui) :
            (ui[k].op = "send_keys" /\ ui[k].target = "upload_video")
                => ui[k].text = path

\* the operations that start an attachment attempt, and those that end a
\* successful one (the third wait did not time out)
AttemptStarts ==
    {k \in 1..Len(ui) : ui[k].op = "find" /\ ui[k].target = "upload_video"}
SuccessEnds ==
    {k \in 1..Len(ui) :
        /\ ui[k].op = "wait" /\ ui[k].target = "process_confirmation"
        /\ ~(k < Len(ui) /\ ui[k + 1].op = "timeout")}

\* the attachment stage has just ended
SetVideoOver ==
    \/ entry = "_set_video" /\ pc = "form_done"
    \/ entry # "_set_interactivity" /\ pc = "set_interactivity"

\* C15: with retry bound R the attachment stage never makes more than R
\* attempts, makes no attempt after a successful one and returns at once on
\* success, and ends only after a success or after R attempts: it makes
\* min(R, index of the first successful attempt) attempts.
C15_AttemptsUntilFirstSuccess ==
    /\ Cardinality(AttemptStarts) <= SetVideo.num_retries
    /\ \A s \in SuccessEnds : \A k \in AttemptStarts : k < s
    /\ Cardinality(SuccessEnds) <= 1
    /\ pc = "set_video" => SuccessEnds = {}
    /\ SetVideoOver =>
          \/ SuccessEnds # {}
          \/ Cardinality(AttemptStarts) = SetVideo.num_retries

\* two attempts allowed: the first failed, the second succeeded and the stage
\* returned
C15_Witness ==
    /\ entry = "_set_video"
    /\ SetVideo.num_retries = 2
    /\ SetVideoOver
    /\ Cardinality(AttemptStarts) = 2
    /\ SuccessEnds # {}

\* the attachment stage is over and every attempt it made failed
AllAttemptsFailed ==
    /\ AttemptStarts # {}
    /\ SuccessEnds = {}
    /\ pc # "set_video"

\* the elements the stages after the attachment work on
LaterTargets ==
    {"comment", "stitch", "duet", "description", "mentions", "hashtags",
     "post", "post_confirmation"}

\* C16: when every attachment attempt failed the stage ends without an
\* exception and complete_upload_form goes on to the interactivity stage and
\* from there to the description and the submission; if the call raises at
\* all, the exception comes from an element of one of those later stages,
\* so the exhausted attempts never make the call (and with it the job) fail.
C16_ExhaustedRetriesAreSoft ==
    AllAttemptsFailed =>
        /\ SetVideoOver => (exc = "none" /\ ~EngineRaised(i))
        /\ (entry = "complete_upload_form" /\ pc # "set_interactivity") =>
              Did(i, "find", "comment")
        /\ EngineRaised(i) =>
              /\ ui[Len(ui)].op \in {"missing", "timeout"}
              /\ ui[Len(ui)].target \in LaterTargets
        /\ (entry = "complete_upload_form" /\ pc = "form_done" /\ ~EngineRaised(i)) =>
              (EngineReturned(i) /\ Did(i, "click", "post"))

\* every attempt failed, and the call went through the three later stages
\* and returned
C16_Witness ==
    /\ entry = "complete_upload_form"
    /\ AllAttemptsFailed
    /\ EngineReturned(i)
    /\ Did(i, "is_selected", "duet")
    /\ Did(i, "send_keys", "description")
    /\ Did(i, "click", "post")

\* DescriptionTooLong has just been raised
TooLongRaised == exc = "DescriptionTooLong" /\ pc = "desc_except"

\* the operations issued on the description field, in order
OnDescription == SelectSeq(ui, LAMBDA o : o.target = "description")

SuggestionMissed(k) ==
    /\ k \in 1..Len(ui)
    /\ ui[k].op = "timeout"
    /\ ui[k].target \in {"mentions", "hashtags"}

\* C18: once a step of the typing loop has raised and the description stage
\* is over, the field holds exactly the original description, no suggestion
\* was clicked after the failure, and the stage returned without raising.
C18_FallbackRestoresOriginal ==
    \A k \in 1..Len(ui) :
        (SuggestionMissed(k) /\ pc \in {"post_video", "form_done"}) =>
            /\ field = saved_description.s
            /\ \A m \in (k + 1)..Len(ui) :
                  ~(ui[m].op = "click" /\ ui[m].target \in {"mentions", "hashtags"})
            /\ pc = "post_video" => exc = "none"

\* operation k read the state of control c; operation k clicked it
Observed(k, c) == ui[k].op = "is_selected" /\ ui[k].target = c
Clicked(k, c) == k \in 1..Len(ui) /\ ui[k].op = "click" /\ ui[k].target = c

\* C19: each of the three controls is read at most once and clicked at most
\* once, and it is clicked, right after it was read, if and only if the state
\* read differs from the desired one.
C19_ClickIffDesiredDiffers ==
    \A c \in {"comment", "stitch", "duet"} :
        /\ Cardinality({k \in 1..Len(ui) : Clicked(k, c)}) <= 1
        /\ Cardinality({k \in 1..Len(ui) : Observed(k, c)}) <= 1
        /\ \A k \in 1..Len(ui) :
              /\ Observed(k, c) =>
                    (Clicked(k + 1, c) <=> ui[k].text # Bool(Desired[c]))
              /\ Clicked(k, c) => (k > 1 /\ Observed(k - 1, c))

\* comment and duet unwanted, stitch wanted; comment was found off, stitch
\* off and duet on: stitch and duet were clicked, comment was not
C19_Witness ==
    /\ entry = "_set_interactivity"
    /\ pc = "form_done"
    /\ Desired = [comment |-> FALSE, stitch |-> TRUE, duet |-> FALSE]
    /\ [k \in 1..Len(ui) |-> <<ui[k].op, ui[k].target, ui[k].text>>] =
          << <<"find", "comment", <<>> >>, <<"find", "stitch", <<>> >>,
             <<"find", "duet", <<>> >>,
             <<"is_selected", "comment", <<"False">> >>,
             <<"is_selected", "stitch", <<"False">> >>, <<"click", "stitch", <<>> >>,
             <<"is_selected", "duet", <<"True">> >>, <<"click", "duet", <<>> >> >>

\* the stage an element belongs to: navigate, attach file, set
\* interactivity, set description, submit
StageOf(target) ==
    CASE target \in {"upload", "iframe", "root"} -> 1
      [] target \in {"upload_video", "upload_progress", "upload_confirmation",
                     "process_confirmation"} -> 2
      [] target \in {"comment", "stitch", "duet"} -> 3
      [] target \in {"description", "implicit_wait", "mentions", "hashtags"} -> 4
      [] target \in {"post", "post_confirmation"} -> 5

\* operation k is a failure that its stage does not handle: an element not
\* found or a wait timed out, outside the attachment attempts and outside the
\* try of the description stage
Fatal(k) ==
    /\ ui[k].op \in {"missing", "timeout"}
    /\ StageOf(ui[k].target) # 2
    /\ ui[k].target \notin {"mentions", "hashtags"}

CountOps(j, op, target) ==
    Cardinality({k \in OpsOf(j) : ui[k].op = op /\ ui[k].target = target})

\* C20: the operations of a call of complete_upload_form come stage by
\* stage in the order navigate, attach, interactivity, description, submit,
\* no stage is entered twice, and a stage is entered only when the one
\* before it ended without raising; when the navigation fails nothing is
\* injected and nothing clicked; the post control is clicked at most once,
\* and when the post confirmation does not appear the call raises and is
\* not made again for the job.
C20_StagesInOrder ==
    entry \in {"upload_videos", "complete_upload_form"} =>
        \A j \in {ui[k].job : k \in 1..Len(ui)} :
            /\ \A k, m \in OpsOf(j) :
                  k < m => StageOf(ui[k].target) <= StageOf(ui[m].target)
            /\ CountOps(j, "get", "upload") <= 1
            /\ CountOps(j, "find", "comment") <= 1
            /\ CountOps(j, "find", "description") <= 1
            /\ CountOps(j, "find", "post") <= 1
            /\ CountOps(j, "click", "post") <= 1
            /\ \A k \in OpsOf(j) :
                  /\ Fatal(k) => (EngineRaised(j) /\ \A m \in OpsOf(j) : m <= k)
                  /\ StageOf(ui[k].target) >= 2 =>
                        \E m \in OpsOf(j) :
                            /\ m < k
                            /\ ui[m].op = "wait" /\ ui[m].target = "root"
                            /\ ui[m + 1].op # "timeout"
                  /\ StageOf(ui[k].target) >= 3 =>
                        \E m \in OpsOf(j) :
                            m < k /\ ui[m].op = "find" /\ ui[m].target = "upload_video"
                  /\ StageOf(ui[k].target) >= 4 =>
                        \E m \in OpsOf(j) :
                            m < k /\ ui[m].op = "is_selected" /\ ui[m].target = "duet"
            /\ (Did(j, "timeout", "iframe") \/ Did(j, "timeout", "root")) =>
                  \A k \in OpsOf(j) :
                      ui[k].op # "click" /\ StageOf(ui[k].target) = 1
            /\ Did(j, "timeout", "post_confirmation") =>
                  /\ EngineRaised(j)
                  /\ ~EngineReturned(j)
                  /\ CountOps(j, "click", "post") = 1
                  /\ Cardinality({k \in 1..Len(engine_calls) : engine_calls[k].job = j}) = 1

\* all five stages ran, the post control was clicked and its confirmation
\* did not appear
C20_Witness ==
    /\ entry = "complete_upload_form"
    /\ pc = "form_done"
    /\ Did(i, "wait", "root")
    /\ Did(i, "send_keys", "upload_video")
    /\ Did(i, "click", "comment")
    /\ Did(i, "click", "hashtags")
    /\ Did(i, "click", "post")
    /\ ui[Len(ui)] = [job |-> i, op |-> "timeout", target |-> "post_confirmation",
                      text |-> <<>>]
    /\ EngineRaised(i)

====
